---- MODULE Spec2Model ----
(***************************************************************************)
(* Model of pylsat's L402Validator (src/pylsat/pylsat.py): the FastAPI     *)
(* dependency that answers a request either with a 402 challenge (a        *)
(* macaroon bound to a Lightning invoice) or verifies a presented          *)
(* macaroon + preimage exactly once, and the background task that purges   *)
(* expired entries of the single-use cache.                                *)
(* src/lsat_handler.py is the earlier copy of the same class with a fixed  *)
(* price; its __call__ and its reaper are line for line the same.          *)
(*                                                                         *)
(* Strings are modelled as sequences of character codes (hex digits are    *)
(* 0..15, any larger code is a non-hex character), so that Python's        *)
(* lexicographic string comparison, bytes.fromhex and isoformat are        *)
(* computed rather than assumed.  One clock tick stands for 600 seconds.   *)
(* The handler runs on one asyncio event loop: a task keeps the loop from  *)
(* the moment it is resumed until its next await or its end.               *)
(***************************************************************************)
EXTENDS Integers, Sequences, FiniteSets, TLC

\* ---------------------------------------------------------------- bounds
MaxTime == 2
ExpirySec == 1
MaxInvoices == 1

\* cleanup_interval = 60 * 10 seconds = 1 tick of 600 seconds
CleanupInterval == 1

Tasks == {1, 2}
None == "None"
NoTask == 0
\* the task created at construction for cleanup_expired_macaroons
ReaperTask == 3

\* ------------------------------------------------------- strings, hashes
RECURSIVE StrLeq(_, _)
\* Python's  a <= b  on str: first differing character decides, a proper
\* prefix is smaller.
StrLeq(a, b) ==
    IF a = <<>> THEN TRUE
    ELSE IF b = <<>> THEN FALSE
    ELSE IF Head(a) # Head(b) THEN Head(a) < Head(b)
    ELSE StrLeq(Tail(a), Tail(b))

\* a >= b in place of a > b
StrGtOrEqual(a, b) == StrLeq(b, a)

\* Python's  a > b  on str
StrGt(a, b) == ~StrLeq(a, b)

\* datetime.isoformat() of the clock value: fixed-width digits
IsoFormat(t) == <<(t \div 10) % 10, t % 10>>

\* bytes.fromhex accepts an even number of hex digits only
IsHexString(s) == Len(s) % 2 = 0 /\ \A i \in 1..Len(s) : s[i] \in 0..15

FromHex(s) == [i \in 1..(Len(s) \div 2) |-> 16 * s[2 * i - 1] + s[2 * i]]

H1 == <<13, 4>>
H2 == <<7, 14>>
H3 == <<0, 0>>
P1 == <<10, 1>>
P2 == <<11, 2>>
PNonHex == <<16, 16>>

\* hashlib.sha256(b).hexdigest(): injective on the byte strings used here
Sha256Hex(b) ==
    IF b = FromHex(P1) THEN H1
    ELSE IF b = FromHex(P2) THEN H2
    ELSE H3

AllHashes == <<H1, H2, H3>>
Hashes == {AllHashes[i] : i \in 1..MaxInvoices}
Preimages == {P1, P2, PNonHex}

\* ------------------------------------------------------------- macaroons
RootKey == "root_key"
ForgedKey == "attacker_key"

\* the caveat string  f"{key} = {value}"
Caveat(k, v) == [key |-> k, sep |-> TRUE, value |-> v]
\* a caveat string without the ' = ' separator
BareCaveat(k) == [key |-> k, sep |-> FALSE, value |-> <<>>]

\* caveat.split(' = '): one part without separator, two with it
SplitLen(c) == IF c.sep THEN 2 ELSE 1

\* one HMAC step of the caveat chain (collision free)
HmacStep(sig, c) == [sig EXCEPT !.chain = Append(@, c)]

\* Macaroon(identifier=..., key=...)
NewMacaroon(id, key) ==
    [identifier |-> id, caveats |-> <<>>,
     signature |-> [key |-> key, id |-> id, chain |-> <<>>]]

\* macaroon.add_first_party_caveat(c)
AddFirstPartyCaveat(m, c) ==
    [m EXCEPT !.caveats = Append(@, c), !.signature = HmacStep(@, c)]

RECURSIVE ChainSignature(_, _)
\* the signature the verifier recomputes from the root key
ChainSignature(sig, cavs) ==
    IF cavs = <<>> THEN sig
    ELSE ChainSignature(HmacStep(sig, Head(cavs)), Tail(cavs))

NoMac == NewMacaroon(<<>>, None)

\* macaroon.serialize() / Macaroon.deserialize(): an opaque token
Serialize(m) == [kind |-> "b64", mac |-> m]
Garbage == [kind |-> "garbage", mac |-> NoMac]
CanDeserialize(tok) == tok.kind = "b64"
Deserialize(tok) == tok.mac

\* ---------------------------------------------------------------- pricing
ValueError == [err |-> "ValueError", price_sats |-> None,
               price_fiat |-> None, conversion_func |-> None]

\* Pricing.__init__
PricingInit(price_sats, price_fiat, conversion_func) ==
    IF price_sats # None /\ price_fiat # None THEN ValueError
    ELSE IF price_sats = None /\ price_fiat = None THEN ValueError
    ELSE IF price_fiat # None /\ conversion_func = None THEN ValueError
    ELSE [err |-> None, price_sats |-> price_sats,
          price_fiat |-> price_fiat, conversion_func |-> conversion_func]

\* the arguments of a Pricing(...) call
Args(price_sats, price_fiat, conversion_func) ==
    [price_sats |-> price_sats, price_fiat |-> price_fiat,
     conversion_func |-> conversion_func]

\* the validator is configured with a fiat price: its conversion function
\* may raise or return, a fixed price is the case where it never raises
FiatArgs == Args(None, "5", "conv")
FiatPricing == PricingInit(None, "5", "conv")

\* no Pricing object yet
NoPricing == [err |-> "unconstructed", price_sats |-> None,
              price_fiat |-> None, conversion_func |-> None]

\* the caller's conversion function, sync or async: a fixed rate
ConversionFunc(price_fiat) ==
    CASE price_fiat = "0.5" -> "1000"
      [] price_fiat = "5" -> "10000"
      [] price_fiat = "9.99" -> "19980"
      [] OTHER -> "TypeError"

\* if self.price_sats:  in place of  if self.price_sats is not None:
GetPriceSatsTruthy(p) ==
    IF p.price_sats \notin {None, "0"} THEN p.price_sats
    ELSE ConversionFunc(p.price_fiat)

\* Pricing.get_price_sats
GetPriceSats(p) ==
    IF p.price_sats # None THEN p.price_sats
    ELSE ConversionFunc(p.price_fiat)

\* ----------------------------------------------------------------- state
VARIABLES
    now,                \* datetime.datetime.now(), in ticks
    verified_macaroons, \* self.verified_macaroons: identifier -> expires
    sleepLeft,          \* ticks left of the reaper's asyncio.sleep
    pricingArgs,        \* the arguments Pricing(...) is called with
    pricing,            \* self.pricing
    priceSats,          \* what the last get_price_sats() returned
    running,            \* task holding the event loop, or None
    pc,                 \* position of each request task in __call__
    header,             \* the request's Authorization header
    macaroon,           \* local: macaroon
    preimage,           \* local: preimage
    invoice,            \* local: invoice returned by generate_invoice
    outcome,            \* how __call__ ended
    response,           \* www-authenticate contents of a 402
    issued,             \* macaroons handed to clients so far
    invoiced,           \* payment hashes the invoice provider has used
    allowedCount,       \* history: requests let through, per identifier
    regSnap,            \* history: the cache when the running task resumed
    invoiceCalls        \* history: generate_invoice calls of each request

vars == <<now, verified_macaroons, sleepLeft, pricingArgs, pricing,
          priceSats, running, pc, header,
          macaroon, preimage, invoice, outcome, response, issued, invoiced,
          allowedCount, regSnap, invoiceCalls>>

locals == <<header, macaroon, preimage, invoice, outcome, response>>

NoHeader == [present |-> FALSE, prefix |-> None, nparts |-> 0,
             cred |-> Garbage, pre |-> <<>>]
NoBolt11 == [hrp |-> None, p |-> <<>>]
NoInvoice == [bolt11 |-> NoBolt11]
NoResponse == [macaroon |-> Garbage, invoice |-> NoBolt11]
NoOutcome == [status |-> None, detail |-> None]
EmptyMap == [i \in {} |-> <<>>]

\* the scheme prefix: the literal 'LSAT ' of line 100
SchemePrefix == "LSAT "

\* l402_key.startswith('LSAT ')
StartsWithPrefix(h) == h.prefix = SchemePrefix

Init ==
    /\ now = 0
    /\ verified_macaroons = EmptyMap
    /\ sleepLeft = CleanupInterval
    /\ pricingArgs = FiatArgs
    /\ pricing = FiatPricing
    /\ priceSats = None
    /\ running = NoTask
    /\ pc = [t \in Tasks |-> "idle"]
    /\ header = [t \in Tasks |-> NoHeader]
    /\ macaroon = [t \in Tasks |-> NoMac]
    /\ preimage = [t \in Tasks |-> <<>>]
    /\ invoice = [t \in Tasks |-> NoInvoice]
    /\ outcome = [t \in Tasks |-> NoOutcome]
    /\ response = [t \in Tasks |-> NoResponse]
    /\ issued = {}
    /\ invoiced = {}
    /\ allowedCount = [h \in Hashes |-> 0]
    /\ regSnap = EmptyMap
    /\ invoiceCalls = [t \in Tasks |-> 0]


\* ------------------------------------------------ invoices (collaborators)
\* the provider's encoded invoice for payment hash h, and bolt11 decode()
Bolt11Encode(h) == [hrp |-> "lnbc", p |-> h]
Bolt11Decode(b) == [tags |-> [p |-> b.p]]

\* ------------------------------------------------------- caveat predicates
\* lambda caveat: caveat.split(' = ')[0] == 'expires'
\*                and datetime.now().isoformat() <= caveat.split(' = ')[1]
ExpiresPredicate(c, t) ==
    c.key = "expires" /\ StrLeq(IsoFormat(t), c.value)

\* the payment_hash predicate without the comparison of the digest
PaymentHashPredicateAnyPreimage(c, pre) == c.key = "payment_hash"

\* lambda caveat: caveat.split(' = ')[0] == 'payment_hash'
\*                and sha256(bytes.fromhex(preimage)).hexdigest()
\*                    == caveat.split(' = ')[1]
PaymentHashPredicate(c, pre) ==
    c.key = "payment_hash" /\ Sha256Hex(FromHex(pre)) = c.value

\* a predicate raises: IndexError on [1] of a one-part split, ValueError
\* of bytes.fromhex; both only behind the short-circuiting key test
PredicateRaises(c, pre) ==
    \/ c.key = "expires" /\ SplitLen(c) < 2
    \/ c.key = "payment_hash" /\ (~IsHexString(pre) \/ SplitLen(c) < 2)

RECURSIVE VerifyCaveats(_, _, _)
\* Verifier._verify_caveats: caveats in order, every callback is called
VerifyCaveats(cavs, t, pre) ==
    IF cavs = <<>> THEN "ok"
    ELSE IF PredicateRaises(Head(cavs), pre) THEN "exception"
    ELSE IF ~(ExpiresPredicate(Head(cavs), t)
              \/ PaymentHashPredicate(Head(cavs), pre)) THEN "unmet"
    ELSE VerifyCaveats(Tail(cavs), t, pre)

\* verifier.verify(macaroon, self.root_key)
VerifierVerify(m, key, t, pre) ==
    IF VerifyCaveats(m.caveats, t, pre) # "ok"
    THEN VerifyCaveats(m.caveats, t, pre)
    ELSE IF ChainSignature(NewMacaroon(m.identifier, key).signature,
                           m.caveats) # m.signature
    THEN "badsig"
    ELSE "ok"

RECURSIVE StoreExpiry(_, _, _)
\* for caveat in macaroon.caveats: if key == 'expires': cache[id] = value
\* the loop testing for a key no caveat has: nothing is stored
StoreExpiryWrongKey(reg, id, cavs) == reg

StoreExpiry(reg, id, cavs) ==
    IF cavs = <<>> THEN reg
    ELSE IF Head(cavs).key = "expires"
    THEN StoreExpiry([k \in DOMAIN reg \cup {id} |->
                         IF k = id THEN Head(cavs).value ELSE reg[k]],
                     id, Tail(cavs))
    ELSE StoreExpiry(reg, id, Tail(cavs))

\* ------------------------------------------------------ what clients send
EarlyExpiry == IsoFormat(0)
LateExpiry == IsoFormat(MaxTime + ExpirySec + 1)

\* caveats a client may append to a macaroon it holds
ClientCaveats ==
    {Caveat("expires", EarlyExpiry), Caveat("expires", LateExpiry),
     Caveat("admin", <<1>>),
     BareCaveat("expires")}

\* keeps the signature of m while dropping its first caveat
Tampered(m) == [m EXCEPT !.caveats = Tail(@)]

\* minted by the client under a key of its own
Forged(id) ==
    AddFirstPartyCaveat(
        AddFirstPartyCaveat(NewMacaroon(id, ForgedKey),
                            Caveat("expires", LateExpiry)),
        Caveat("payment_hash", id))

Presentable ==
    issued
    \cup {AddFirstPartyCaveat(m, c) : m \in issued, c \in ClientCaveats}
    \cup {Tampered(m) : m \in issued}
    \cup {Forged(m.identifier) : m \in issued}

Header(prefix, nparts, cred, pre) ==
    [present |-> TRUE, prefix |-> prefix, nparts |-> nparts,
     cred |-> cred, pre |-> pre]

Headers ==
    {NoHeader, Header("L402 ", 1, Garbage, <<>>)}
    \cup {Header(SchemePrefix, 1, Garbage, <<>>),
          Header(SchemePrefix, 2, Garbage, P1),
          Header(SchemePrefix, 3, Garbage, P1)}
    \cup {Header(SchemePrefix, 2, Serialize(m), p) :
             m \in issued, p \in Preimages}
    \cup {Header(SchemePrefix, 2, Serialize(m), P1) : m \in Presentable}
    \cup {Header(SchemePrefix, 2,
                 Serialize(AddFirstPartyCaveat(m, Caveat("admin", <<1>>))),
                 PNonHex) : m \in issued}

\* ------------------------------------------------------------- scheduling
\* a handler run on worker threads: any task runs at any time
CanRunPreempting(t) == TRUE

\* __call__ is a coroutine on the event loop: it runs only while no other
\* task does
CanRun(t) == running \in {NoTask, t}

\* return request, or raise HTTPException(status_code, detail)
Outcome(status, detail) == [status |-> status, detail |-> detail]

Finish(t, status, detail) ==
    /\ pc' = [pc EXCEPT ![t] = "done"]
    /\ outcome' = [outcome EXCEPT ![t] = Outcome(status, detail)]

\* ---------------------------------------------------------------- actions
\* a request arrives and its handler task waits for the event loop; an
\* arrival during another task's run has no effect before that run ends,
\* so arrivals are taken between runs, into the lowest free task slot
Receive(t) ==
    /\ pc[t] = "idle"
    /\ running = NoTask
    /\ \A u \in Tasks : u < t => pc[u] # "idle"
    /\ \E h \in Headers : header' = [header EXCEPT ![t] = h]
    /\ pc' = [pc EXCEPT ![t] = "pending"]
    /\ UNCHANGED <<now, verified_macaroons, sleepLeft, pricingArgs, pricing,
                   priceSats, running, macaroon, preimage, invoice, outcome,
                   response, issued, invoiced, allowedCount, regSnap,
                   invoiceCalls>>

\* the branch without the startswith test
RoutesToIssuerNoneOnly(h) == ~h.present

\* lines 99-100: the branch to the challenge
RoutesToIssuer(h) == ~h.present \/ ~StartsWithPrefix(h)

\* lines 99-104: no usable header; the price is resolved, generate_invoice
\* is called and awaited
StartInvoice(t) ==
    /\ pc[t] = "pending"
    /\ CanRun(t)
    /\ RoutesToIssuer(header[t])
    /\ pc' = [pc EXCEPT ![t] = "await_invoice"]
    /\ invoiceCalls' = [invoiceCalls EXCEPT ![t] = @ + 1]
    /\ running' = NoTask
    /\ priceSats' = GetPriceSats(pricing)
    /\ UNCHANGED <<now, verified_macaroons, sleepLeft, pricingArgs, pricing,
                   locals, issued, invoiced, allowedCount, regSnap>>

\* lines 99-106, 37-44: the conversion function raises
PriceRaises(t) ==
    /\ pc[t] = "pending"
    /\ CanRun(t)
    /\ RoutesToIssuer(header[t])
    /\ pricing.price_sats = None
    /\ running' = t
    /\ regSnap' = verified_macaroons
    /\ Finish(t, "500", "Couldn't generate invoice")
    /\ UNCHANGED <<now, verified_macaroons, sleepLeft, pricingArgs, pricing,
                   priceSats, header, macaroon, preimage, invoice, response,
                   issued, invoiced, allowedCount, invoiceCalls>>

\* the provider raises and generate_invoice is called once more
InvoiceRaisesRetried(t) ==
    /\ pc[t] = "await_invoice"
    /\ CanRun(t)
    /\ IF invoiceCalls[t] < 2
       THEN /\ invoiceCalls' = [invoiceCalls EXCEPT ![t] = @ + 1]
            /\ UNCHANGED <<pc, outcome, running, regSnap>>
       ELSE /\ running' = t
            /\ regSnap' = verified_macaroons
            /\ Finish(t, "500", "Couldn't generate invoice")
            /\ UNCHANGED invoiceCalls
    /\ UNCHANGED <<now, verified_macaroons, sleepLeft, pricingArgs, pricing,
                   priceSats, header, macaroon, preimage, invoice, response,
                   issued, invoiced, allowedCount>>

\* lines 105-106: the provider raises
InvoiceRaises(t) ==
    /\ pc[t] = "await_invoice"
    /\ CanRun(t)
    /\ running' = t
    /\ regSnap' = verified_macaroons
    /\ Finish(t, "500", "Couldn't generate invoice")
    /\ UNCHANGED <<now, verified_macaroons, sleepLeft, pricingArgs, pricing,
                   priceSats, header, macaroon, preimage, invoice, response,
                   issued, invoiced, allowedCount, invoiceCalls>>

\* the macaroon of a challenge with the expiry_sec left out of expires
MintMacaroonNoLifetime(payment_hash, key, t) ==
    AddFirstPartyCaveat(
        AddFirstPartyCaveat(NewMacaroon(payment_hash, key),
                            Caveat("expires", IsoFormat(t))),
        Caveat("payment_hash", payment_hash))

\* lines 112-116: the macaroon of a challenge
MintMacaroon(payment_hash, key, t) ==
    AddFirstPartyCaveat(
        AddFirstPartyCaveat(NewMacaroon(payment_hash, key),
                            Caveat("expires", IsoFormat(t + ExpirySec))),
        Caveat("payment_hash", payment_hash))

\* the issuer recording the identifier at the time it mints the macaroon
ChallengeRegistering(t, h) ==
    /\ pc[t] = "await_invoice"
    /\ CanRun(t)
    /\ h \in Hashes \ invoiced
    /\ running' = t
    /\ regSnap' = verified_macaroons
    /\ invoiced' = invoiced \cup {h}
    /\ LET inv == [bolt11 |-> Bolt11Encode(h)]
           encoded_invoice == inv.bolt11
           payment_hash == Bolt11Decode(encoded_invoice).tags.p
           m == MintMacaroon(payment_hash, RootKey, now)
       IN /\ invoice' = [invoice EXCEPT ![t] = inv]
          /\ macaroon' = [macaroon EXCEPT ![t] = m]
          /\ response' = [response EXCEPT ![t] =
                 [macaroon |-> Serialize(m), invoice |-> encoded_invoice]]
          /\ issued' = issued \cup {m}
          /\ verified_macaroons' =
                 StoreExpiry(verified_macaroons, payment_hash, m.caveats)
    /\ Finish(t, "402", "Payment Required")
    /\ UNCHANGED <<now, sleepLeft, pricingArgs, pricing, priceSats, header,
                   preimage, allowedCount, invoiceCalls>>

\* lines 104-124: the provider returns an invoice with a fresh payment hash
\* h; decode it, mint the macaroon, answer 402
Challenge(t, h) ==
    /\ pc[t] = "await_invoice"
    /\ CanRun(t)
    /\ h \in Hashes \ invoiced
    /\ running' = t
    /\ regSnap' = verified_macaroons
    /\ invoiced' = invoiced \cup {h}
    /\ LET inv == [bolt11 |-> Bolt11Encode(h)]
           encoded_invoice == inv.bolt11
           payment_hash == Bolt11Decode(encoded_invoice).tags.p
           m == MintMacaroon(payment_hash, RootKey, now)
       IN /\ invoice' = [invoice EXCEPT ![t] = inv]
          /\ macaroon' = [macaroon EXCEPT ![t] = m]
          /\ response' = [response EXCEPT ![t] =
                 [macaroon |-> Serialize(m), invoice |-> encoded_invoice]]
          /\ issued' = issued \cup {m}
    /\ Finish(t, "402", "Payment Required")
    /\ UNCHANGED <<now, verified_macaroons, sleepLeft, pricingArgs, pricing,
                   priceSats, header, preimage, allowedCount, invoiceCalls>>

\* split(':', 1): never more than two parts
SplitRaisesTooFewOnly(h) == h.nparts < 2

\* line 127: unpacking the result of split(':') into two names raises
\* ValueError unless there are exactly two parts (lstrip('LSAT ') removes
\* no ':' and so leaves the number of parts alone)
SplitRaises(h) == h.nparts # 2

\* lines 126-148: the checks of a presented header, in the order of the
\* code; NoOutcome when all of them pass
CheckOutcome(h, t, reg) ==
    IF SplitRaises(h)
    THEN Outcome("400", "Invalid L402 key format")
    ELSE IF ~CanDeserialize(h.cred)
    THEN Outcome("400", "Couldn't deserialize macaroon")
    ELSE IF ~IsHexString(h.pre)
    \* line 139, print(...bytes.fromhex(preimage)...), is outside any try
    THEN Outcome("ValueError", "non-hexadecimal number found in fromhex()")
    ELSE IF VerifierVerify(Deserialize(h.cred), RootKey, t, h.pre) # "ok"
    THEN Outcome("403", "Forbidden")
    ELSE IF Deserialize(h.cred).identifier \in DOMAIN reg
    THEN Outcome("403", "Forbidden: Macaroon is only valid once")
    ELSE NoOutcome

\* the identifier recorded as soon as the macaroon deserializes, before it
\* is verified
CheckCredentialRegistering(t) ==
    /\ pc[t] = "pending"
    /\ CanRun(t)
    /\ ~RoutesToIssuer(header[t])
    /\ running' = t
    /\ regSnap' = verified_macaroons
    /\ LET h == header[t]
           o == CheckOutcome(h, now, verified_macaroons)
       IN /\ preimage' = [preimage EXCEPT ![t] =
                             IF SplitRaises(h) THEN <<>> ELSE h.pre]
          /\ macaroon' = [macaroon EXCEPT ![t] =
                             IF SplitRaises(h) \/ ~CanDeserialize(h.cred)
                             THEN NoMac ELSE Deserialize(h.cred)]
          /\ verified_macaroons' =
                 IF SplitRaises(h) \/ ~CanDeserialize(h.cred)
                 THEN verified_macaroons
                 ELSE StoreExpiry(verified_macaroons,
                                  Deserialize(h.cred).identifier,
                                  Deserialize(h.cred).caveats)
          /\ outcome' = [outcome EXCEPT ![t] = o]
          /\ pc' = [pc EXCEPT ![t] = IF o = NoOutcome THEN "insert"
                                                      ELSE "done"]
    /\ UNCHANGED <<now, sleepLeft, pricingArgs, pricing, priceSats, header,
                   invoice, response, issued, invoiced, allowedCount,
                   invoiceCalls>>

\* lines 99-148: a header with the scheme prefix is parsed, deserialized,
\* verified and looked up in the cache
CheckCredential(t) ==
    /\ pc[t] = "pending"
    /\ CanRun(t)
    /\ ~RoutesToIssuer(header[t])
    /\ running' = t
    /\ regSnap' = verified_macaroons
    /\ LET h == header[t]
           o == CheckOutcome(h, now, verified_macaroons)
       IN /\ preimage' = [preimage EXCEPT ![t] =
                             IF SplitRaises(h) THEN <<>> ELSE h.pre]
          /\ macaroon' = [macaroon EXCEPT ![t] =
                             IF SplitRaises(h) \/ ~CanDeserialize(h.cred)
                             THEN NoMac ELSE Deserialize(h.cred)]
          /\ outcome' = [outcome EXCEPT ![t] = o]
          /\ pc' = [pc EXCEPT ![t] = IF o = NoOutcome THEN "insert"
                                                      ELSE "done"]
    /\ UNCHANGED <<now, verified_macaroons, sleepLeft, pricingArgs, pricing,
                   priceSats, header, invoice, response, issued, invoiced,
                   allowedCount, invoiceCalls>>

\* lines 151-155: record the expiry and return the request
Insert(t) ==
    /\ pc[t] = "insert"
    /\ CanRun(t)
    /\ verified_macaroons' =
           StoreExpiry(verified_macaroons, macaroon[t].identifier,
                       macaroon[t].caveats)
    /\ allowedCount' = [allowedCount EXCEPT ![macaroon[t].identifier] =
                           IF @ < 2 THEN @ + 1 ELSE @]
    /\ Finish(t, "allowed", "return request")
    /\ UNCHANGED <<now, sleepLeft, pricingArgs, pricing, priceSats, running,
                   header, macaroon, preimage, invoice, response, issued,
                   invoiced, regSnap, invoiceCalls>>

\* the response leaves __call__; the task ends
Complete(t) ==
    /\ pc[t] = "done"
    /\ pc' = [pc EXCEPT ![t] = "idle"]
    /\ running' = IF running = t THEN NoTask ELSE running
    /\ header' = [header EXCEPT ![t] = NoHeader]
    /\ macaroon' = [macaroon EXCEPT ![t] = NoMac]
    /\ preimage' = [preimage EXCEPT ![t] = <<>>]
    /\ invoice' = [invoice EXCEPT ![t] = NoInvoice]
    /\ outcome' = [outcome EXCEPT ![t] = NoOutcome]
    /\ response' = [response EXCEPT ![t] = NoResponse]
    /\ invoiceCalls' = [invoiceCalls EXCEPT ![t] = 0]
    /\ regSnap' = EmptyMap
    /\ UNCHANGED <<now, verified_macaroons, sleepLeft, pricingArgs, pricing,
                   priceSats, issued, invoiced, allowedCount>>

\* lines 91-95: the reaper's sleep is over; it lists and deletes the
\* expired entries in one run
Sweep ==
    /\ running = NoTask
    /\ sleepLeft = 0
    /\ running' = ReaperTask
    /\ regSnap' = verified_macaroons
    /\ LET expired_macaroons ==
               {id \in DOMAIN verified_macaroons :
                    StrGt(IsoFormat(now), verified_macaroons[id])}
       IN verified_macaroons' =
              [id \in DOMAIN verified_macaroons \ expired_macaroons |->
                   verified_macaroons[id]]
    /\ UNCHANGED <<now, sleepLeft, pricingArgs, pricing, priceSats, pc, locals,
                   issued, invoiced, allowedCount, invoiceCalls>>

\* the loop of cleanup_expired_macaroons ending after its first sweep
ReaperReturns ==
    /\ running = ReaperTask
    /\ running' = NoTask
    /\ regSnap' = EmptyMap
    /\ sleepLeft' = 0 - 1
    /\ UNCHANGED <<now, verified_macaroons, pricingArgs, pricing, priceSats,
                   pc, locals, issued, invoiced, allowedCount, invoiceCalls>>

\* lines 89-90: while True: await asyncio.sleep(self.cleanup_interval)
ReaperSleep ==
    /\ running = ReaperTask
    /\ running' = NoTask
    /\ regSnap' = EmptyMap
    /\ sleepLeft' = CleanupInterval
    /\ UNCHANGED <<now, verified_macaroons, pricingArgs, pricing, priceSats,
                   pc, locals, issued, invoiced, allowedCount, invoiceCalls>>

\* the wall clock advances by a whole tick only while no task is running
\* or ready to run (a ready task is run within a fraction of a tick)
Tick ==
    /\ running = NoTask
    /\ \A t \in Tasks : pc[t] \in {"idle", "await_invoice"}
    /\ now < MaxTime
    /\ now' = now + 1
    /\ sleepLeft' = IF sleepLeft > 0 THEN sleepLeft - 1 ELSE sleepLeft
    /\ UNCHANGED <<verified_macaroons, pricingArgs, pricing, priceSats,
                   running, pc, locals, issued, invoiced, allowedCount,
                   regSnap, invoiceCalls>>

Next ==
    \/ \E t \in Tasks : Receive(t)
    \/ \E t \in Tasks : StartInvoice(t)
    \/ \E t \in Tasks : PriceRaises(t)
    \/ \E t \in Tasks : InvoiceRaises(t)
    \/ \E t \in Tasks : \E h \in Hashes : Challenge(t, h)
    \/ \E t \in Tasks : CheckCredential(t)
    \/ \E t \in Tasks : Insert(t)
    \/ \E t \in Tasks : Complete(t)
    \/ Sweep
    \/ ReaperSleep
    \/ Tick

Spec == Init /\ [][Next]_vars

----------------------------------------------------------------------------
\* The reaper against the clock and a request handler: requests are served
\* one at a time, each holding the event loop while it runs

FirstTask == 1

NextReaper ==
    \/ Receive(FirstTask)
    \/ StartInvoice(FirstTask)
    \/ PriceRaises(FirstTask)
    \/ InvoiceRaises(FirstTask)
    \/ \E h \in Hashes : Challenge(FirstTask, h)
    \/ CheckCredential(FirstTask)
    \/ Insert(FirstTask)
    \/ Complete(FirstTask)
    \/ Sweep
    \/ ReaperSleep
    \/ Tick

\* The event loop runs a callback that stays ready, so a handler runs on to
\* its end and the reaper goes back to sleep (weak fairness); requests keep
\* arriving and taking the loop, yet the clock advances and the reaper,
\* ready again and again once its sleep is over, gets its turn (strong
\* fairness). Nothing obliges a client to send a request or the invoice
\* provider to answer.
Fairness ==
    /\ WF_vars(StartInvoice(FirstTask) \/ PriceRaises(FirstTask))
    /\ WF_vars(CheckCredential(FirstTask))
    /\ WF_vars(Insert(FirstTask))
    /\ WF_vars(Complete(FirstTask))
    /\ WF_vars(ReaperSleep)
    /\ SF_vars(Sweep)
    /\ SF_vars(Tick)

ReaperSpec == Init /\ [][NextReaper]_vars /\ Fairness

----------------------------------------------------------------------------
\* Pricing on its own: every way of calling Pricing(...) and then
\* get_price_sats() on the object, before any validator serves a request

SatsArgs == {None, "0", "1", "10", "21"}
FiatValues == {None, "0.5", "5", "9.99"}
ConversionArgs == {None, "conv", "async conv"}

InitPricing ==
    /\ pricingArgs \in {Args(ps, pf, cf) : ps \in SatsArgs, pf \in FiatValues,
                                          cf \in ConversionArgs}
    /\ pricing = NoPricing
    /\ priceSats = None
    /\ now = 0
    /\ verified_macaroons = EmptyMap
    /\ sleepLeft = CleanupInterval
    /\ running = NoTask
    /\ pc = [t \in Tasks |-> "idle"]
    /\ header = [t \in Tasks |-> NoHeader]
    /\ macaroon = [t \in Tasks |-> NoMac]
    /\ preimage = [t \in Tasks |-> <<>>]
    /\ invoice = [t \in Tasks |-> NoInvoice]
    /\ outcome = [t \in Tasks |-> NoOutcome]
    /\ response = [t \in Tasks |-> NoResponse]
    /\ issued = {}
    /\ invoiced = {}
    /\ allowedCount = [h \in Hashes |-> 0]
    /\ regSnap = EmptyMap
    /\ invoiceCalls = [t \in Tasks |-> 0]

\* lines 22-35: Pricing(price_sats, price_fiat, conversion_func)
Construct ==
    /\ pricing = NoPricing
    /\ pricing' = PricingInit(pricingArgs.price_sats, pricingArgs.price_fiat,
                              pricingArgs.conversion_func)
    /\ UNCHANGED <<now, verified_macaroons, sleepLeft, pricingArgs, priceSats,
                   running, pc, locals, issued, invoiced, allowedCount,
                   regSnap, invoiceCalls>>

\* lines 37-44: get_price_sats() on a constructed object
GetPrice ==
    /\ pricing.err = None
    /\ priceSats = None
    /\ priceSats' = GetPriceSats(pricing)
    /\ UNCHANGED <<now, verified_macaroons, sleepLeft, pricingArgs, pricing,
                   running, pc, locals, issued, invoiced, allowedCount,
                   regSnap, invoiceCalls>>

NextPricing ==
    \/ Construct
    \/ GetPrice

SpecPricing == InitPricing /\ [][NextPricing]_vars

\* ================================================================ claims
\* the request of task t has run to its end
Done(t) == pc[t] = "done"
\* its Authorization header is missing or lacks the scheme prefix
LacksScheme(h) == ~h.present \/ h.prefix # SchemePrefix
\* it presented a credential that deserializes, and a preimage
Presented(t) ==
    /\ Done(t)
    /\ ~LacksScheme(header[t])
    /\ header[t].nparts = 2
    /\ header[t].cred.kind = "b64"
Credential(t) == header[t].cred.mac
Digest(t) == Sha256Hex(FromHex(header[t].pre))
Unexpired(m) ==
    \A i \in DOMAIN m.caveats :
        m.caveats[i].key = "expires" =>
            m.caveats[i].sep /\ StrLeq(IsoFormat(now), m.caveats[i].value)

\* C1 (as claimed): over all requests, clock advances and sweeps, at most
\* one verification request per credential identifier is ever let through.
SingleUse == \A h \in Hashes : allowedCount[h] <= 1

\* C2: between the membership test of a request and its insert no other
\* task takes a step and the test's answer stays true, and no two requests
\* with the same identifier are past the test together.
AtMostOnePastTheTest ==
    \A t \in Tasks : \A u \in Tasks \ {t} :
        (pc[t] = "insert" \/ (Done(t) /\ outcome[t].status = "allowed"))
        /\ (pc[u] = "insert" \/ (Done(u) /\ outcome[u].status = "allowed"))
        => macaroon[t].identifier # macaroon[u].identifier

AtomicCheckAndSet ==
    /\ []AtMostOnePastTheTest
    /\ [][\A t \in Tasks :
            pc[t] = "insert" =>
                /\ macaroon[t].identifier \notin DOMAIN verified_macaroons
                /\ pc'[t] = "done"
                /\ macaroon[t].identifier \in DOMAIN verified_macaroons'
                /\ \A u \in Tasks \ {t} : pc'[u] = pc[u]]_vars

\* two requests with the same credential in flight, one of them between
\* its membership test and its insert
ConcurrentSameCredential ==
    \E t \in Tasks : \E u \in Tasks \ {t} :
        /\ pc[t] = "insert"
        /\ pc[u] = "pending"
        /\ ~LacksScheme(header[u])
        /\ header[u].nparts = 2
        /\ header[u].cred = header[t].cred

\* C3: a request is allowed only if the SHA-256 digest of the hex-decoded
\* preimage equals the value of the credential's payment_hash caveat(s);
\* a hex preimage with another digest, presented with an issued, unexpired,
\* unused credential, is answered 403.
PreimageBinding ==
    \A t \in Tasks :
        Presented(t) =>
            /\ outcome[t].status = "allowed" =>
                  /\ IsHexString(header[t].pre)
                  /\ \E i \in DOMAIN Credential(t).caveats :
                         Credential(t).caveats[i].key = "payment_hash"
                  /\ \A i \in DOMAIN Credential(t).caveats :
                         Credential(t).caveats[i].key = "payment_hash" =>
                             Credential(t).caveats[i].value = Digest(t)
            /\ ( /\ Credential(t) \in issued
                 /\ Unexpired(Credential(t))
                 /\ Credential(t).identifier \notin DOMAIN regSnap
                 /\ IsHexString(header[t].pre)
                 /\ Digest(t) # Credential(t).caveats[2].value )
               => outcome[t].status = "403"

\* a wrong preimage with an issued, unexpired, unused credential was refused
WrongPreimageRefused ==
    \E t \in Tasks :
        /\ Presented(t)
        /\ Credential(t) \in issued
        /\ Unexpired(Credential(t))
        /\ Credential(t).identifier \notin DOMAIN regSnap
        /\ header[t].pre = P2
        /\ outcome[t].status = "403"

\* C4 (as claimed): a presented credential with an expires caveat earlier
\* than the current time is answered 403 whatever the preimage and the
\* cache, and an allowed request has now <= every expires timestamp.
ExpiredAlwaysForbidden ==
    \A t \in Tasks :
        Presented(t) =>
            /\ ~Unexpired(Credential(t)) => outcome[t].status = "403"
            /\ outcome[t].status = "allowed" => Unexpired(Credential(t))

\* C5 (as claimed): a request is allowed only if the signature verifies
\* under the root key and every caveat is an expires or payment_hash caveat
\* that holds; a presented credential with any other caveat is answered 403
\* and the cache is left as it was.
ClosedCaveatSet ==
    \A t \in Tasks :
        Presented(t) =>
            /\ outcome[t].status = "allowed" =>
                  /\ Credential(t).signature =
                         ChainSignature(
                             NewMacaroon(Credential(t).identifier,
                                         RootKey).signature,
                             Credential(t).caveats)
                  /\ \A i \in DOMAIN Credential(t).caveats :
                         Credential(t).caveats[i].key
                             \in {"expires", "payment_hash"}
                  /\ Unexpired(Credential(t))
            /\ (\E i \in DOMAIN Credential(t).caveats :
                    Credential(t).caveats[i].key
                        \notin {"expires", "payment_hash"})
               => /\ outcome[t].status = "403"
                  /\ verified_macaroons = regSnap

\* C6: the credential of every 402 has the payment hash decoded from the
\* invoice of that request as identifier and exactly the caveats
\* expires = issue time + expiry_sec, payment_hash = that hash, in this
\* order, and the 402 carries that same invoice.
IssuanceBinding ==
    \A t \in Tasks :
        Done(t) /\ outcome[t].status = "402" =>
            LET m == response[t].macaroon.mac
                ph == invoice[t].bolt11.p
            IN /\ response[t].macaroon.kind = "b64"
               /\ response[t].invoice = invoice[t].bolt11
               /\ m \in issued
               /\ m.identifier = ph
               /\ Len(m.caveats) = 2
               /\ m.caveats[1] = [key |-> "expires", sep |-> TRUE,
                                  value |-> IsoFormat(now + ExpirySec)]
               /\ m.caveats[2] = [key |-> "payment_hash", sep |-> TRUE,
                                  value |-> ph]
               /\ m.signature = [key |-> RootKey, id |-> ph,
                                 chain |-> m.caveats]

\* a challenge has been minted
ChallengeIssued ==
    \E t \in Tasks : Done(t) /\ outcome[t].status = "402"

VerifierOutcomesClosed ==
    \A t \in Tasks :
        Done(t) /\ ~LacksScheme(header[t]) =>
            /\ outcome[t].status \in {"allowed", "400", "403"}
            /\ header[t].nparts = 2 /\ header[t].cred.kind # "b64"
                  => outcome[t].status = "400"

\* C10: a request of the issuer that got no invoice, because the price
\* resolver or the provider raised, ends in 500 with a message, without
\* credential, after at most one call of the provider, the cache unchanged;
\* no other request of the issuer ends in 500.
InvoiceFailure ==
    \A t \in Tasks :
        Done(t) /\ LacksScheme(header[t]) =>
            /\ invoice[t] = NoInvoice <=> outcome[t].status = "500"
            /\ outcome[t].status = "500" =>
                  /\ outcome[t].detail = "Couldn't generate invoice"
                  /\ response[t] = NoResponse
                  /\ macaroon[t] = NoMac
                  /\ macaroon[t] \notin issued
                  /\ invoiceCalls[t] <= 1
                  /\ verified_macaroons = regSnap

\* the provider was called once, raised, and the request ended in 500
ProviderRaised ==
    \E t \in Tasks :
        /\ Done(t)
        /\ outcome[t].status = "500"
        /\ invoiceCalls[t] = 1

\* the time a stored expires string denotes
ParseIso(s) == 10 * s[1] + s[2]

NeverSwept ==
    [id \in {h \in Hashes : allowedCount[h] > 0} |-> EarlyExpiry]

\* C12: every presented credential gets the outcome it would get from a
\* validator whose reaper never runs; a sweep never turns a refusal into an
\* acceptance.
ReapingNotSecurity ==
    \A t \in Tasks :
        /\ pc[t] = "insert" =>
               CheckOutcome(header[t], now, NeverSwept) = NoOutcome
        /\ (Done(t) /\ ~LacksScheme(header[t])
                /\ outcome[t].status # "allowed") =>
               CheckOutcome(header[t], now, NeverSwept) = outcome[t]

\* C13: Pricing(...) raises exactly when both prices are given, when none
\* is, or when a fiat price comes without a conversion function; an object
\* that exists keeps its arguments and has exactly one of a fixed price and
\* a fiat price with its converter; get_price_sats returns a supplied fixed
\* price unchanged, 0 included.
PricingConstruction ==
    LET a == pricingArgs
        both == a.price_sats # None /\ a.price_fiat # None
        neither == a.price_sats = None /\ a.price_fiat = None
        bareFiat == a.price_fiat # None /\ a.conversion_func = None
    IN /\ pricing # NoPricing =>
              (pricing.err = "ValueError" <=> both \/ neither \/ bareFiat)
       /\ pricing.err = None =>
              /\ pricing.price_sats = a.price_sats
              /\ pricing.price_fiat = a.price_fiat
              /\ pricing.conversion_func = a.conversion_func
              /\ (pricing.price_sats # None) #
                     (pricing.price_fiat # None
                          /\ pricing.conversion_func # None)
       /\ (priceSats # None /\ a.price_sats # None) =>
              priceSats = a.price_sats

\* get_price_sats has answered for an object built with a fixed price of 0
ZeroPriceReturned ==
    /\ pricingArgs.price_sats = "0"
    /\ pricing.err = None
    /\ priceSats = "0"

\* a request on the issuance path has ended and the cache is as it found it
IssuanceKeepsRegistry ==
    /\ \A t \in Tasks :
           Done(t) /\ LacksScheme(header[t]) =>
               /\ outcome[t].status \in {"402", "500"}
               /\ verified_macaroons = regSnap
    /\ \A m \in issued :
           allowedCount[m.identifier] = 0 =>
               m.identifier \notin DOMAIN verified_macaroons

\* C14: a request without the scheme prefix, ending in 402 or in 500,
\* leaves the cache as it was, before the invoice call and after it; a
\* credential that was issued and never verified has no entry.
IssuanceSideEffectFree ==
    /\ []IssuanceKeepsRegistry
    /\ [][\A t \in Tasks :
            (pc[t] \in {"pending", "await_invoice"} /\ pc'[t] # pc[t]
                 /\ LacksScheme(header[t])) =>
                verified_macaroons' = verified_macaroons]_vars

\* a challenge has been answered and its credential, not yet presented,
\* has no entry
IssuedUnverified ==
    \E t \in Tasks :
        /\ Done(t)
        /\ outcome[t].status = "402"
        /\ macaroon[t] \in issued
        /\ allowedCount[macaroon[t].identifier] = 0
        /\ macaroon[t].identifier \notin DOMAIN verified_macaroons

\* the positions of a macaroon's expires caveats
ExpiresAt(m) == {i \in DOMAIN m.caveats : m.caveats[i].key = "expires"}

\* C15: when a request is allowed, its credential's identifier is a key of
\* the cache before the request is passed on, and the value is the
\* timestamp of the credential's expires caveat (of the last one, where a
\* client appended more).
ConsumptionOnSuccess ==
    \A t \in Tasks :
        (Done(t) /\ outcome[t].status = "allowed") =>
            LET m == macaroon[t]
            IN /\ m = Credential(t)
               /\ m.identifier \in DOMAIN verified_macaroons
               /\ ExpiresAt(m) # {}
               /\ \E i \in ExpiresAt(m) :
                      /\ \A j \in ExpiresAt(m) : j <= i
                      /\ verified_macaroons[m.identifier] =
                             m.caveats[i].value

\* an issued credential, as minted, has been let through and its entry
\* holds the issuer's expires timestamp
IssuedConsumed ==
    \E t \in Tasks :
        /\ Done(t)
        /\ outcome[t].status = "allowed"
        /\ macaroon[t] \in issued
        /\ verified_macaroons[macaroon[t].identifier] =
               macaroon[t].caveats[1].value

\* C16: a request with the scheme prefix that ends in 400 or 403 leaves the
\* cache as it was; every key of the cache is the identifier of a
\* credential that was let through, and the 'only valid once' refusal is
\* given only for such an identifier, so a refused attempt never blocks a
\* valid credential's first use.
RejectedDoNotConsume ==
    /\ \A t \in Tasks :
           (Done(t) /\ ~LacksScheme(header[t])
                /\ outcome[t].status \in {"400", "403"}) =>
               /\ verified_macaroons = regSnap
               /\ outcome[t].detail = "Forbidden: Macaroon is only valid once"
                      => allowedCount[macaroon[t].identifier] >= 1
    /\ \A id \in DOMAIN verified_macaroons : allowedCount[id] >= 1

\* a credential with a broken signature or a past expiry was refused with
\* 403 and its identifier, never let through, has no entry
RefusedLeftNoEntry ==
    \E t \in Tasks :
        /\ Presented(t)
        /\ outcome[t].status = "403"
        /\ outcome[t].detail = "Forbidden"
        /\ Digest(t) = Credential(t).identifier
        /\ allowedCount[Credential(t).identifier] = 0
        /\ Credential(t).identifier \notin DOMAIN verified_macaroons

\* the signature of a presented macaroon is not the one the root key gives
BadSignature(m) ==
    ChainSignature(NewMacaroon(m.identifier, RootKey).signature, m.caveats)
        # m.signature

\* a hexadecimal preimage whose digest is not the identifier
WrongPreimage(t) ==
    IsHexString(header[t].pre) /\ Digest(t) # Credential(t).identifier

\* C17: the checks run in the order parse (400), deserialize (400),
\* signature and caveats (403), replay lookup (403), insert: the replay
\* refusal and the acceptance come only after verification succeeded, and a
\* request whose identifier is already consumed but whose signature is
\* invalid, whose preimage is wrong or whose expiry has passed gets the
\* verification 403, never 'only valid once'.
CheckOrdering ==
    \A t \in Tasks :
        (Done(t) /\ ~LacksScheme(header[t])) =>
            LET h == header[t]
                verified ==
                    /\ Presented(t)
                    /\ VerifierVerify(Credential(t), RootKey, now, h.pre)
                           = "ok"
            IN /\ SplitRaises(h) =>
                      outcome[t] = Outcome("400", "Invalid L402 key format")
               /\ (~SplitRaises(h) /\ ~CanDeserialize(h.cred)) =>
                      outcome[t] =
                          Outcome("400", "Couldn't deserialize macaroon")
               /\ outcome[t].detail = "Forbidden: Macaroon is only valid once"
                      => verified
               /\ outcome[t].status = "allowed" =>
                      verified /\ Credential(t).identifier
                                      \notin DOMAIN regSnap
               /\ (Presented(t)
                       /\ Credential(t).identifier \in DOMAIN regSnap
                       /\ (BadSignature(Credential(t))
                             \/ ~Unexpired(Credential(t))
                             \/ WrongPreimage(t))) =>
                      outcome[t] = Outcome("403", "Forbidden")

\* C18: an identifier's entry appears only by the insert of a request that
\* is let through, and only if the identifier was never let through before
\* (unused -> consumed, never reaped -> consumed); while present its stored
\* value does not change; it disappears only in a sweep of the reaper taken
\* after the stored expiry.
IdentifierLifecycle ==
    [][\A id \in Hashes :
          LET was == id \in DOMAIN verified_macaroons
              is == id \in DOMAIN verified_macaroons'
          IN /\ (~was /\ is) =>
                    /\ allowedCount[id] = 0
                    /\ \E t \in Tasks :
                           /\ pc[t] = "insert"
                           /\ macaroon[t].identifier = id
                           /\ outcome'[t].status = "allowed"
             /\ (was /\ is) =>
                    verified_macaroons'[id] = verified_macaroons[id]
             /\ (was /\ ~is) =>
                    /\ running' = ReaperTask
                    /\ ParseIso(verified_macaroons[id]) < now]_vars

\* the issued credentials and their versions with one more expires or
\* payment_hash caveat appended by the client
Versions ==
    issued \cup
    UNION {{AddFirstPartyCaveat(m, c) :
                c \in {Caveat("expires", EarlyExpiry),
                       Caveat("expires", LateExpiry),
                       Caveat("payment_hash", m.identifier)}} :
           m \in issued}

\* C19: if an identifier has been consumed and some credential bearing it,
\* as issued or with caveats appended, would still pass verification now,
\* the identifier is still a key of the cache.
ConsumedOutliveCredential ==
    \A m \in Versions :
        (/\ allowedCount[m.identifier] >= 1
         /\ \E pre \in {hx \in Preimages : IsHexString(hx)} :
                VerifierVerify(m, RootKey, now, pre) = "ok")
            => m.identifier \in DOMAIN verified_macaroons

\* C20: the reaper sweeps only when its sleep of one interval is over, and
\* under ReaperSpec every entry whose stored expiry has passed, with the next
\* sweep due within the clock's range, is eventually removed.
ReaperLiveness ==
    /\ [][verified_macaroons' # verified_macaroons /\ running' = ReaperTask
            => sleepLeft = 0]_vars
    /\ \A id \in Hashes :
           (/\ id \in DOMAIN verified_macaroons
            /\ ParseIso(verified_macaroons[id]) < now
            /\ now + sleepLeft <= MaxTime)
               ~> (id \notin DOMAIN verified_macaroons)

\* an entry is still in the cache after its stored expiry, the reaper asleep
ExpiredAwaitingSweep ==
    /\ running # ReaperTask
    /\ \E id \in DOMAIN verified_macaroons :
           ParseIso(verified_macaroons[id]) < now

====
